---- MODULE Spec2Model ----
(***************************************************************************)
(* A model of package memory of go-ipld (src/memory/node.go): the Node /   *)
(* Link value model, the link extractor Links and the streaming reader     *)
(* Node.Read / read with its callback protocol.                            *)
(***************************************************************************)
EXTENDS Integers, Sequences, FiniteSets, TLC

VARIABLES doc,      \* the Node that Read is invoked on
          stack,    \* call frames of read, innermost last
          heap,     \* backing arrays of the path slices
          log,      \* invocations of the callback fun, in order
          ret,      \* error value a returning read hands to its caller
          result,   \* what Node.Read returned
          pc,       \* "idle", "running" or "done" ("off" while Read is not exercised)
          probe,    \* the value handed to IsLink, or the Node handed to Links
          visits,   \* where in the document Walk has called the function Links gave it
          links,    \* the map m that Links fills
          out,      \* what the called function returned
          store,    \* the maps LinkCast works on, by reference: v's map first
          lpc       \* "idle", "walking" or "done" ("off" while Read is exercised)

rvars == <<doc, stack, heap, log, ret, result, pc>>
lvars == <<probe, visits, links, out, store, lpc>>
vars == <<rvars, lvars>>

---------------------------------------------------------------------------
(* Bounds of the model.                                                    *)

\* most entries of a generated map or slice
MaxLen == 2
\* most single-key maps wrapped around a generated document
MaxWrap == 3
\* most characters of a path handed to Get
MaxPathLen == 4

---------------------------------------------------------------------------
(* Values: interface{} with its dynamic type as the tag t.                 *)

LinkKey == "/"

Str(x) == [t |-> "string", s |-> x]
Num(n) == [t |-> "number", n |-> n]
NodeV(m) == [t |-> "Node", m |-> m]
SliceV(a) == [t |-> "slice", a |-> a]

\* the nil interface value
Nil == [t |-> "nil"]

\* a map with the one entry k: v
One(k, v) == [x \in {k} |-> v]
\* a map with the two entries k1: v1, k2: v2
Two(k1, v1, k2, v2) == [x \in {k1, k2} |-> IF x = k1 THEN v1 ELSE v2]

---------------------------------------------------------------------------
(* Strings as bytes, and sort.Strings.                                     *)

\* the UTF-8 bytes of the key strings the documents use
KeyBytes(k) ==
    CASE k = "/" -> <<47>>
      [] k = "@" -> <<64>>
      [] k = "B" -> <<66>>
      [] k = "a" -> <<97>>
      [] k = "b" -> <<98>>
      [] k = "ab" -> <<97, 98>>
      [] k = "a/b" -> <<97, 47, 98>>
      [] k = "bar" -> <<98, 97, 114>>
      [] k = "baz" -> <<98, 97, 122>>
      [] k = "foo" -> <<102, 111, 111>>
      [] k = "test" -> <<116, 101, 115, 116>>

\* Go's < on strings: byte-wise lexicographic
StrLess(a, b) ==
    LET x == KeyBytes(a)
        y == KeyBytes(b)
    IN \E i \in 1..Len(y) :
          /\ \A j \in 1..(i - 1) : j <= Len(x) /\ x[j] = y[j]
          /\ i <= Len(x) => x[i] < y[i]

\* sort.Strings with the comparison reversed
RECURSIVE SortDescending(_)
SortDescending(S) ==
    IF S = {} THEN <<>>
    ELSE LET mx == CHOOSE k \in S : \A o \in S \ {k} : StrLess(o, k)
         IN <<mx>> \o SortDescending(S \ {mx})

\* sort.Strings over the keys collected from the map
RECURSIVE SortStrings(_)
SortStrings(S) ==
    IF S = {} THEN <<>>
    ELSE LET mn == CHOOSE k \in S : \A o \in S \ {k} : StrLess(k, o)
         IN <<mn>> \o SortStrings(S \ {mn})

---------------------------------------------------------------------------
(* Slices of interface{}: a backing array and a length. append writes in   *)
(* place when the capacity allows and allocates a larger array otherwise.  *)

KeySeg(k) == [k |-> k]
\* IdxSeg counting the elements from one
IdxSegFromOne(i) == [i |-> i + 1]

IdxSeg(i) == [i |-> i]

\* []interface{}{}: no backing array
EmptyPath == [arr |-> 0, len |-> 0]

Cap(h, s) == IF s.arr = 0 THEN 0 ELSE Len(h[s.arr])

\* the elements of slice s
Deref(h, s) == IF s.arr = 0 THEN <<>> ELSE SubSeq(h[s.arr], 1, s.len)

\* the runtime's growth of a small slice: double, or what is needed
GrowCap(oldcap, needed) == IF needed > 2 * oldcap THEN needed ELSE 2 * oldcap

\* AppendSlice leaving the segment out, as if subpath were path itself
AppendNothing(h, s, x) == [heap |-> h, slice |-> s]

\* append(s, x): the heap afterwards and the slice returned
AppendSlice(h, s, x) ==
    IF s.len < Cap(h, s)
    THEN [heap |-> [h EXCEPT ![s.arr][s.len + 1] = x],
          slice |-> [arr |-> s.arr, len |-> s.len + 1]]
    ELSE LET newcap == GrowCap(Cap(h, s), s.len + 1)
             fresh == [j \in 1..newcap |->
                          IF j <= s.len THEN h[s.arr][j]
                          ELSE IF j = s.len + 1 THEN x ELSE Nil]
         IN [heap |-> Append(h, fresh),
             slice |-> [arr |-> Len(h) + 1, len |-> s.len + 1]]

---------------------------------------------------------------------------
(* The documents Read is run on.                                           *)

Scalars == {Str("x"), Num(1)}
ReadKeys == {"a", "b"}

\* maps over the keys K with at most MaxLen entries and values in V
NodesOver(K, V) ==
    {NodeV(m) : m \in UNION {[D -> V] : D \in {D \in SUBSET K : Cardinality(D) <= MaxLen}}}

\* slices of at most MaxLen elements of V
SlicesOver(V) == {SliceV(a) : a \in UNION {[1..n -> V] : n \in 0..MaxLen}}

\* the values of a generated root: scalars and containers of one scalar
Values1 == Scalars \cup NodesOver(ReadKeys, {Num(1)}) \cup SlicesOver({Num(1)})

RECURSIVE Wrap(_, _)
Wrap(v, d) == IF d = 0 THEN v ELSE NodeV(One("a", Wrap(v, d - 1)))

\* the deep documents: a two-entry container under d single-key maps
DeepLeaves ==
    {NodeV(Two("ab", Num(1), "B", Str("x"))),
     SliceV(<<Num(1), Str("x")>>),
     NodeV(Two("a", SliceV(<<Num(1)>>), "b", NodeV(One("a", Num(1)))))}

ReadDocs ==
    NodesOver(ReadKeys, Values1)
      \cup {Wrap(v, d) : v \in DeepLeaves, d \in 1..MaxWrap}

---------------------------------------------------------------------------
(* The callback protocol of package stream.                                *)

NodeReadAbort == "abort"
NodeReadSkip == "skip"
NoErr == "nil"
ConsumerErrs == {"E1", "E2"}
Outcomes == {NoErr, NodeReadSkip, NodeReadAbort} \cup ConsumerErrs

\* ret while no read is returning
NoRet == "none"

Top == stack[Len(stack)]
Pop == SubSeq(stack, 1, Len(stack) - 1)

Frame(curr, path) == [curr |-> curr, path |-> path, keys |-> <<>>, i |-> 0, at |-> "entry"]

\* fun(path, tok, val) returning o
Fun(path, tok, val, o) ==
    log' = Append(log, [path |-> path, segs |-> Deref(heap, path),
                        tok |-> tok, val |-> val, ret |-> o])

\* `if err != nil { return err }` after a Start, End or Value token
ReturnsErr(err) == err # NoErr

\* SkipsEntry without the continue: SkipSubtree handled like any other error
SkipsEntryNever(err) == FALSE

\* `if err == stream.NodeReadSkip { continue }` after a Key or Index token
SkipsEntry(err) == err = NodeReadSkip

\* ChildErrReturns returning from the loop after any child, whatever it returned
ChildErrReturnsAlways(err) == TRUE

\* ChildErrReturns taking SkipSubtree for an error of the child
ChildErrReturnsAny(err) == err # NoErr

\* ChildErrReturns going on to the next entry after Abort as after SkipSubtree
ChildErrReturnsButAbort(err) == err \notin {NoErr, NodeReadSkip, NodeReadAbort}

\* `if err != nil && err != stream.NodeReadSkip { return err }` after the nested read
ChildErrReturns(err) == err # NoErr /\ err # NodeReadSkip

\* ReadResult translating Abort only
ReadResultAbortOnly(err) == IF err = NodeReadAbort THEN NoErr ELSE err

\* ReadResult reporting success whatever read returned
ReadResultAlwaysNil(err) == NoErr

\* Node.Read's translation of read's error
ReadResult(err) == IF err = NodeReadAbort \/ err = NodeReadSkip THEN NoErr ELSE err

\* read returns err to its caller
Return(err) == stack' = Pop /\ ret' = err

\* NextEntry staying on the same entry
NextEntryAgain(i) == i

\* the loop over the sorted keys or over the slice moving to its next entry
NextEntry(i) == i + 1

Running == pc = "running" /\ ret = NoRet /\ stack # <<>>

CallRead ==
    /\ pc = "idle"
    /\ stack' = <<Frame(doc, EmptyPath)>>
    /\ pc' = "running"
    /\ UNCHANGED <<doc, heap, log, ret, result>>
    /\ UNCHANGED lvars

EmitNode(o) ==
    /\ Running /\ Top.at = "entry" /\ Top.curr.t = "Node"
    /\ Fun(Top.path, "TokenNode", Nil, o)
    /\ IF ReturnsErr(o)
       THEN Return(o)
       ELSE /\ stack' = [stack EXCEPT ![Len(stack)] =
                           [@ EXCEPT !.keys = SortStrings(DOMAIN Top.curr.m),
                                     !.i = 1, !.at = "loop"]]
            /\ ret' = ret
    /\ UNCHANGED <<doc, heap, result, pc>>
    /\ UNCHANGED lvars

EmitKey(o) ==
    /\ Running /\ Top.at = "loop" /\ Top.curr.t = "Node" /\ Top.i <= Len(Top.keys)
    /\ LET k == Top.keys[Top.i] IN
       /\ Fun(Top.path, "TokenKey", KeySeg(k), o)
       /\ IF SkipsEntry(o)
          THEN /\ stack' = [stack EXCEPT ![Len(stack)].i = NextEntry(@)]
               /\ UNCHANGED <<heap, ret>>
          ELSE IF o # NoErr
          THEN Return(o) /\ heap' = heap
          ELSE LET sub == AppendSlice(heap, Top.path, KeySeg(k)) IN
               /\ heap' = sub.heap
               /\ stack' = Append([stack EXCEPT ![Len(stack)].at = "call"],
                                  Frame(Top.curr.m[k], sub.slice))
               /\ ret' = ret
    /\ UNCHANGED <<doc, result, pc>>
    /\ UNCHANGED lvars

EmitEndNode(o) ==
    /\ Running /\ Top.at = "loop" /\ Top.curr.t = "Node" /\ Top.i > Len(Top.keys)
    /\ Fun(Top.path, "TokenEndNode", Nil, o)
    /\ IF ReturnsErr(o) THEN Return(o) ELSE Return(NoErr)
    /\ UNCHANGED <<doc, heap, result, pc>>
    /\ UNCHANGED lvars

EmitArray(o) ==
    /\ Running /\ Top.at = "entry" /\ Top.curr.t = "slice"
    /\ Fun(Top.path, "TokenArray", Nil, o)
    /\ IF ReturnsErr(o)
       THEN Return(o)
       ELSE /\ stack' = [stack EXCEPT ![Len(stack)] = [@ EXCEPT !.i = 1, !.at = "loop"]]
            /\ ret' = ret
    /\ UNCHANGED <<doc, heap, result, pc>>
    /\ UNCHANGED lvars

EmitIndex(o) ==
    /\ Running /\ Top.at = "loop" /\ Top.curr.t = "slice" /\ Top.i <= Len(Top.curr.a)
    /\ LET i == Top.i - 1 IN
       /\ Fun(Top.path, "TokenIndex", IdxSeg(i), o)
       /\ IF SkipsEntry(o)
          THEN /\ stack' = [stack EXCEPT ![Len(stack)].i = NextEntry(@)]
               /\ UNCHANGED <<heap, ret>>
          ELSE IF o # NoErr
          THEN Return(o) /\ heap' = heap
          ELSE LET sub == AppendSlice(heap, Top.path, IdxSeg(i)) IN
               /\ heap' = sub.heap
               /\ stack' = Append([stack EXCEPT ![Len(stack)].at = "call"],
                                  Frame(Top.curr.a[i + 1], sub.slice))
               /\ ret' = ret
    /\ UNCHANGED <<doc, result, pc>>
    /\ UNCHANGED lvars

EmitEndArray(o) ==
    /\ Running /\ Top.at = "loop" /\ Top.curr.t = "slice" /\ Top.i > Len(Top.curr.a)
    /\ Fun(Top.path, "TokenEndArray", Nil, o)
    /\ IF ReturnsErr(o) THEN Return(o) ELSE Return(NoErr)
    /\ UNCHANGED <<doc, heap, result, pc>>
    /\ UNCHANGED lvars

EmitValue(o) ==
    /\ Running /\ Top.at = "entry" /\ Top.curr.t \notin {"Node", "slice"}
    /\ Fun(Top.path, "TokenValue", Top.curr, o)
    /\ IF ReturnsErr(o) THEN Return(o) ELSE Return(NoErr)
    /\ UNCHANGED <<doc, heap, result, pc>>
    /\ UNCHANGED lvars

\* the nested read returned into the loop over the keys or elements
ChildReturn ==
    /\ pc = "running" /\ ret # NoRet /\ stack # <<>>
    /\ IF ChildErrReturns(ret)
       THEN Return(ret)
       ELSE /\ stack' = [stack EXCEPT ![Len(stack)] = [@ EXCEPT !.i = NextEntry(@), !.at = "loop"]]
            /\ ret' = NoRet
    /\ UNCHANGED <<doc, heap, log, result, pc>>
    /\ UNCHANGED lvars

\* the outermost read returned to Node.Read
ReadReturn ==
    /\ pc = "running" /\ ret # NoRet /\ stack = <<>>
    /\ result' = ReadResult(ret)
    /\ pc' = "done"
    /\ ret' = NoRet
    /\ UNCHANGED <<doc, stack, heap, log>>
    /\ UNCHANGED lvars

Init ==
    /\ doc \in ReadDocs
    /\ stack = <<>>
    /\ heap = <<>>
    /\ log = <<>>
    /\ ret = NoRet
    /\ result = "pending"
    /\ pc = "idle"
    /\ probe = Nil
    /\ visits = {}
    /\ links = <<>>
    /\ out = Nil
    /\ store = <<>>
    /\ lpc = "off"

Next ==
    \/ CallRead
    \/ \E o \in Outcomes : EmitNode(o)
    \/ \E o \in Outcomes : EmitKey(o)
    \/ \E o \in Outcomes : EmitEndNode(o)
    \/ \E o \in Outcomes : EmitArray(o)
    \/ \E o \in Outcomes : EmitIndex(o)
    \/ \E o \in Outcomes : EmitEndArray(o)
    \/ \E o \in Outcomes : EmitValue(o)
    \/ ChildReturn
    \/ ReadReturn

Spec == Init /\ [][Next]_vars

\* Read is one synchronous call: it keeps running until it returns
FairSpec == Spec /\ WF_vars(Next)

---------------------------------------------------------------------------
(* The Node / Link model: IsLink, LinkCast, Links.                         *)

\* a value of type Link holding the map mm
LinkV(mm) == [t |-> "Link", m |-> mm]

\* the zero Link that LinkCast returns with ok = false
NilLink == [t |-> "Link", m |-> <<>>, isnil |-> TRUE]

\* a value that is neither a Node, a []interface{} nor a string, such as []int{1, 2, 3}
Opaque == [t |-> "opaque"]

\* mm[k] of a Go map: the nil interface when k is missing
Lookup(mm, k) == IF k \in DOMAIN mm THEN mm[k] ELSE Nil

\* IsLink without the test on the number of entries
IsLinkAnyLen(v) == v.t = "Node" /\ Lookup(v.m, LinkKey).t = "string"

IsLink(v) ==
    IF v.t # "Node" THEN FALSE
    ELSE /\ Lookup(v.m, LinkKey).t = "string"
         /\ Cardinality(DOMAIN v.m) = 1

LinkCast(v) ==
    IF ~IsLink(v) THEN [l |-> NilLink, ok |-> FALSE]
    ELSE [l |-> LinkV([k \in DOMAIN v.m |-> v.m[k]]), ok |-> TRUE]

\* mm[k] = v
MapPut(mm, k, v) == [x \in DOMAIN mm \cup {k} |-> IF x = k THEN v ELSE mm[x]]

\* the function Links hands to Walk, called with the Node curr, its path and
\* err: the map m afterwards and the error returned
LinksVisit(mm, curr, path, err) ==
    IF err # NoErr THEN [m |-> mm, err |-> err]
    ELSE LET c == LinkCast(curr)
         IN [m |-> IF c.ok THEN MapPut(mm, path, c.l) ELSE mm, err |-> NoErr]

\* the decimal text of a slice index
Itoa(i) == CASE i = 0 -> "0" [] i = 1 -> "1" [] i = 2 -> "2" [] i = 3 -> "3"

\* the path notation of Links' result: the intervening keys joined by "/", the
\* root's path being empty
RECURSIVE JoinSegs(_)
JoinSegs(segs) ==
    IF segs = <<>> THEN ""
    ELSE IF Len(segs) = 1 THEN segs[1]
    ELSE segs[1] \o "/" \o JoinSegs(Tail(segs))

\* the Nodes held in v, v itself included, each with the keys and indices
\* leading to it from segs on
RECURSIVE NodesIn(_, _)
NodesIn(v, segs) ==
    IF v.t = "Node"
    THEN {[segs |-> segs, curr |-> v]}
           \cup UNION {NodesIn(v.m[k], Append(segs, k)) : k \in DOMAIN v.m}
    ELSE IF v.t = "slice"
    THEN UNION {NodesIn(v.a[i], Append(segs, Itoa(i - 1))) : i \in 1..Len(v.a)}
    ELSE {}

\* the errors Walk calls the function with
VisitErrs == {NoErr, "E1"}

CallIsLink ==
    /\ lpc = "idle"
    /\ out' = [op |-> "IsLink", ok |-> IsLink(probe)]
    /\ lpc' = "done"
    /\ UNCHANGED <<probe, visits, links>>
    /\ UNCHANGED <<rvars, store>>

\* Links(n): m := map[string]Link{}, then Walk(n, ...)
CallLinks ==
    /\ lpc = "idle" /\ probe.t = "Node"
    /\ links' = <<>>
    /\ visits' = {}
    /\ lpc' = "walking"
    /\ UNCHANGED <<probe, out>>
    /\ UNCHANGED <<rvars, store>>

\* Walk calls the function Links gave it with a Node of the document and the
\* path of that Node, once per Node it visits; which Nodes it visits, in which
\* order and with which err is Walk's doing, and so is what it does with the
\* error returned
Visit(at, err) ==
    /\ lpc = "walking"
    /\ at \in NodesIn(probe, <<>>) /\ at.segs \notin visits
    /\ links' = LinksVisit(links, at.curr, JoinSegs(at.segs), err).m
    /\ visits' = visits \cup {at.segs}
    /\ UNCHANGED <<probe, out, lpc>>
    /\ UNCHANGED <<rvars, store>>

\* Walk returned, its result is dropped: Links returns m
LinksReturn ==
    /\ lpc = "walking"
    /\ out' = [op |-> "Links", m |-> links]
    /\ lpc' = "done"
    /\ UNCHANGED <<probe, visits, links>>
    /\ UNCHANGED <<rvars, store>>

\* l = Link(v.(Node)): the returned Link is v's own map
ShareMap(st, r) == [store |-> st, ref |-> r]

\* l = make(Link), then l[k] = v for every entry of v: a new map with v's entries
CopyMap(st, r) == [store |-> Append(st, [k \in DOMAIN st[r] |-> st[r][k]]), ref |-> Len(st) + 1]

\* the reference of the nil Link
NilRef == 0

\* LinkCast(v), v's map being the first of the store
CallLinkCast ==
    /\ lpc = "idle"
    /\ LET st == IF probe.t \in {"Node", "Link"} THEN <<probe.m>> ELSE <<>>
       IN IF ~IsLink(probe)
          THEN /\ store' = st
               /\ out' = [op |-> "LinkCast", ok |-> FALSE, l |-> NilRef]
          ELSE LET cp == CopyMap(st, 1)
               IN /\ store' = cp.store
                  /\ out' = [op |-> "LinkCast", ok |-> TRUE, l |-> cp.ref]
    /\ lpc' = "done"
    /\ UNCHANGED <<probe, visits, links>>
    /\ UNCHANGED rvars

\* the caller changes the Link it was given: l[k] = x
ChangeLink(k, x) ==
    /\ lpc = "done" /\ out.op = "LinkCast" /\ out.ok
    /\ store' = [store EXCEPT ![out.l] = MapPut(@, k, x)]
    /\ lpc' = "changed"
    /\ UNCHANGED <<probe, visits, links, out>>
    /\ UNCHANGED rvars

IsNilLink(l) == "isnil" \in DOMAIN l

\* DeepEqual looking at the key sets only
DeepEqualKeys(x, y) == IsNilLink(x) = IsNilLink(y) /\ DOMAIN x.m = DOMAIN y.m

\* reflect.DeepEqual of two maps: both nil or both non-nil, the same length, and
\* the same keys holding deeply equal values (of the same dynamic type)
DeepEqual(x, y) ==
    /\ IsNilLink(x) = IsNilLink(y)
    /\ Cardinality(DOMAIN x.m) = Cardinality(DOMAIN y.m)
    /\ \A k \in DOMAIN x.m : k \in DOMAIN y.m /\ x.m[k] = y.m[k]

\* l.Equal(l2)
LinkEqual(l, l2) == DeepEqual(l, l2)

\* l.Equal(l2), with l2.Equal(l) and l.Equal(l) beside it
CallEqual(l2) ==
    /\ lpc = "idle" /\ probe.t = "Link"
    /\ out' = [op |-> "Equal", l2 |-> l2, eq |-> LinkEqual(probe, l2),
               rev |-> LinkEqual(l2, probe), self |-> LinkEqual(probe, probe)]
    /\ lpc' = "done"
    /\ UNCHANGED <<probe, visits, links, store>>
    /\ UNCHANGED rvars

\* l.LinkStr(): s, _ := l[LinkKey].(string)
LinkStr(l) == LET e == Lookup(l.m, LinkKey) IN IF e.t = "string" THEN e.s ELSE ""

\* the strings that are the base58 text of a multihash
ValidB58 == {"QmZku7P7KeeHAnwMr6c4HveYfMzmtVinNXzibkiNbfDbPo"}

\* mh.FromB58String(s): the multihash of a valid text, an error otherwise
FromB58String(s) ==
    IF s \in ValidB58 THEN [h |-> [mh |-> s], err |-> NoErr]
    ELSE [h |-> Nil, err |-> "decode error"]

\* Hash handing every string to the decoder, the empty one too
LinkHashAlwaysDecodes(l) ==
    LET d == FromB58String(LinkStr(l)) IN [h |-> d.h, err |-> d.err, decoded |-> <<LinkStr(l)>>]

\* l.Hash(): the multihash, the error, and the strings handed to the decoder
LinkHash(l) ==
    LET str == LinkStr(l)
    IN IF str = ""
       THEN [h |-> Nil, err |-> "no hash in link", decoded |-> <<>>]
       ELSE LET d == FromB58String(str) IN [h |-> d.h, err |-> d.err, decoded |-> <<str>>]

\* l.LinkStr() and l.Hash()
CallHash ==
    /\ lpc = "idle" /\ probe.t = "Link"
    /\ out' = [op |-> "Hash", s |-> LinkStr(probe), hash |-> LinkHash(probe)]
    /\ lpc' = "done"
    /\ UNCHANGED <<probe, visits, links, store>>
    /\ UNCHANGED rvars

(* Get: a path is a string, here the sequence of its characters.           *)

Separator == "/"
EscapeMarker == "\\"
Digits == {"0", "1"}

\* the result of a resolution that finds nothing
NoValue == Nil

\* the segments of a path: split at each separator, a character that follows the
\* escape marker being taken literally
RECURSIVE SplitFrom(_, _)
SplitFrom(cs, cur) ==
    IF cs = <<>> THEN <<cur>>
    ELSE IF Head(cs) = EscapeMarker /\ Len(cs) >= 2
    THEN SplitFrom(Tail(Tail(cs)), Append(cur, cs[2]))
    ELSE IF Head(cs) = Separator
    THEN <<cur>> \o SplitFrom(Tail(cs), <<>>)
    ELSE SplitFrom(Tail(cs), Append(cur, Head(cs)))

SplitPath(cs) == SplitFrom(cs, <<>>)

\* the string made of the characters cs
RECURSIVE ToStr(_)
ToStr(cs) == IF cs = <<>> THEN "" ELSE Head(cs) \o ToStr(Tail(cs))

IsIndex(seg) == seg # <<>> /\ \A i \in 1..Len(seg) : seg[i] \in Digits

\* the non-negative integer a segment of digits denotes
RECURSIVE ParseIndex(_)
ParseIndex(seg) ==
    IF seg = <<>> THEN 0
    ELSE 10 * ParseIndex(SubSeq(seg, 1, Len(seg) - 1))
           + (IF seg[Len(seg)] = "1" THEN 1 ELSE 0)

\* Resolve staying on the current Node when the key is missing
RECURSIVE ResolveSkippingMisses(_, _)
ResolveSkippingMisses(v, segs) ==
    IF segs = <<>> THEN v
    ELSE IF v.t = "Node"
    THEN IF ToStr(Head(segs)) \in DOMAIN v.m
         THEN ResolveSkippingMisses(v.m[ToStr(Head(segs))], Tail(segs))
         ELSE ResolveSkippingMisses(v, Tail(segs))
    ELSE NoValue

\* resolution segment by segment: a key of a Node, an index into a sequence
RECURSIVE Resolve(_, _)
Resolve(v, segs) ==
    IF segs = <<>> THEN v
    ELSE IF v.t = "Node"
    THEN IF ToStr(Head(segs)) \in DOMAIN v.m
         THEN Resolve(v.m[ToStr(Head(segs))], Tail(segs))
         ELSE NoValue
    ELSE IF v.t = "slice"
    THEN IF IsIndex(Head(segs)) /\ ParseIndex(Head(segs)) < Len(v.a)
         THEN Resolve(v.a[ParseIndex(Head(segs)) + 1], Tail(segs))
         ELSE NoValue
    ELSE NoValue

GetPath(n, path) == Resolve(n, SplitPath(path))

\* n.Get(path_)
NodeGet(n, path) == GetPath(n, path)

PathChars == {"a", "b", "c", "0", "1", Separator, EscapeMarker}

\* whether the last character of cs is an escape marker that escapes nothing
RECURSIVE EndsInEscape(_)
EndsInEscape(cs) ==
    IF cs = <<>> THEN FALSE
    ELSE IF Head(cs) = EscapeMarker
    THEN Len(cs) = 1 \/ EndsInEscape(Tail(Tail(cs)))
    ELSE EndsInEscape(Tail(cs))

\* the paths handed to Get: no empty segment, no escape marker at the end
Paths ==
    {cs \in UNION {[1..n -> PathChars] : n \in 1..MaxPathLen} :
        /\ ~EndsInEscape(cs)
        /\ \A i \in 1..Len(SplitPath(cs)) : SplitPath(cs)[i] # <<>>}

\* the documents Get is run on
GetDocs ==
    {NodeV(One("a", NodeV(One("b", Str("x"))))),
     NodeV(One("a", SliceV(<<Str("x"), NodeV(One("b", Num(1)))>>))),
     NodeV(Two("a/b", Str("y"), "a", NodeV(One("b", Str("x"))))),
     NodeV(Two("a", Str("x"), "0", Num(1))),
     NodeV(One("a", NodeV(One(LinkKey, Str("Qm1"))))),
     NodeV(<<>>)}

CallGet(path) ==
    /\ lpc = "idle" /\ probe \in GetDocs
    /\ out' = [op |-> "Get", path |-> path, val |-> NodeGet(probe, path)]
    /\ lpc' = "done"
    /\ UNCHANGED <<probe, visits, links, store>>
    /\ UNCHANGED rvars

(* The values IsLink and Links are run on.                                 *)

LinkLeaves == {Str("Qm1"), Str("Qm2"), Num(1)}
LinkDocKeys == {LinkKey, "a", "b", "a/b"}

\* the maps over the keys K with at most two entries and values in V
SmallMaps(K, V) == UNION {[D -> V] : D \in {D \in SUBSET K : Cardinality(D) <= 2}}

LinkNodes1 == {NodeV(mm) : mm \in SmallMaps(LinkDocKeys, LinkLeaves)}

\* a link held one key down: under an ordinary key, and under the marker itself
LinksUnderKey ==
    {NodeV(One(k, NodeV(One(LinkKey, q)))) : k \in {"b", LinkKey}, q \in {Str("Qm1"), Str("Qm2")}}

LinkValues1 ==
    LinkLeaves \cup LinkNodes1 \cup LinksUnderKey
      \cup {SliceV(<<NodeV(One(LinkKey, Str("Qm1")))>>),
            SliceV(<<Num(1), NodeV(One(LinkKey, Str("Qm2")))>>),
            LinkV(One(LinkKey, Str("Qm1"))), Opaque, Nil}

LinkNodes2 == {NodeV(mm) : mm \in SmallMaps(LinkDocKeys, LinkValues1)}

QmZku == Str("QmZku7P7KeeHAnwMr6c4HveYfMzmtVinNXzibkiNbfDbPo")

\* the document of test case #0
TestCase0 ==
    NodeV([k \in {"foo", "bar", "baz", "test"} |->
              CASE k = "foo" -> Str("bar")
                [] k = "bar" -> Opaque
                [] k = "baz" -> NodeV(One(LinkKey, QmZku))
                [] k = "test" -> NodeV(One(LinkKey, NodeV(One(LinkKey, QmZku))))])

\* the document of the example in the comment of Links
LinksExample ==
    NodeV(Two("foo", NodeV(One("quux", NodeV(One(LinkKey, Str("Qmaaaa"))))),
              "bar", NodeV(One("baz", NodeV(One(LinkKey, Str("Qmbbbb")))))))

QmPb == Str("QmZku7P7KeeHAnwMr6c4HveYfMzmtVinNXzibkiNbfDbPb")
QmPa == Str("QmZku7P7KeeHAnwMr6c4HveYfMzmtVinNXzibkiNbfDbPa")

\* the document of test case #1
TestCase1 ==
    NodeV([k \in {"baz", "bazz", "bar", "bar2"} |->
              CASE k = "baz" -> NodeV(One(LinkKey, QmZku))
                [] k = "bazz" -> NodeV(One(LinkKey, QmZku))
                [] k = "bar" -> NodeV(One(LinkKey, QmPb))
                [] k = "bar2" -> NodeV(Two("@bar", NodeV(One(LinkKey, QmPa)),
                                           "\\@foo", NodeV(One(LinkKey, QmPa))))])

\* the Links that Equal, LinkStr and Hash are run on
SomeLinks ==
    {NilLink} \cup {LinkV(mm) : mm \in SmallMaps({LinkKey, "a"}, LinkLeaves \cup {Str(""), QmZku})}

Probes == LinkValues1 \cup LinkNodes2 \cup {TestCase0, TestCase1, LinksExample} \cup SomeLinks \cup GetDocs

InitLinks ==
    /\ probe \in Probes
    /\ visits = {}
    /\ links = <<>>
    /\ out = Nil
    /\ store = <<>>
    /\ lpc = "idle"
    /\ doc = NodeV(<<>>)
    /\ stack = <<>>
    /\ heap = <<>>
    /\ log = <<>>
    /\ ret = NoRet
    /\ result = "pending"
    /\ pc = "off"

NextLinks ==
    \/ CallIsLink
    \/ CallLinks
    \/ \E at \in NodesIn(probe, <<>>), err \in VisitErrs : Visit(at, err)
    \/ LinksReturn
    \/ CallLinkCast
    \/ \E path \in Paths : CallGet(path)
    \/ CallHash
    \/ \E l2 \in SomeLinks : CallEqual(l2)
    \/ \E k \in {LinkKey, "a"} : ChangeLink(k, Str("Qm9"))

SpecLinks == InitLinks /\ [][NextLinks]_vars

---------------------------------------------------------------------------
(* Properties of Read, stated over the callback invocations in log.        *)

StartToks == {"TokenNode", "TokenArray"}
EndToks == {"TokenEndNode", "TokenEndArray"}
EntryToks == {"TokenKey", "TokenIndex"}

MatchingEnd(tok) == IF tok = "TokenNode" THEN "TokenEndNode" ELSE "TokenEndArray"

IsPrefix(p, q) == Len(p) <= Len(q) /\ SubSeq(q, 1, Len(p)) = p

Front(p) == SubSeq(p, 1, Len(p) - 1)

\* the value of the document at the end of the segments segs
RECURSIVE ValueAt(_, _)
ValueAt(v, segs) ==
    IF segs = <<>> THEN v
    ELSE IF v.t = "Node" THEN ValueAt(v.m[Head(segs).k], Tail(segs))
    ELSE ValueAt(v.a[Head(segs).i + 1], Tail(segs))

\* the position of x in the sequence s
IndexOf(s, x) == CHOOSE n \in 1..Len(s) : s[n] = x

SkippedStart(i) == log[i].tok \in StartToks /\ log[i].ret = NodeReadSkip

SkippedEntry(i) == log[i].tok \in EntryToks /\ log[i].ret = NodeReadSkip

\* C1 as claimed: after SkipSubtree on a StartMap or StartArray token no token of
\* the container's children is emitted and the next token emitted is the matching
\* EndMap or EndArray of that same container, which is still emitted.
C1_SkipOnStartStillEmitsEnd ==
    \A i \in 1..Len(log) :
        SkippedStart(i) =>
            IF i < Len(log)
            THEN /\ log[i + 1].tok = MatchingEnd(log[i].tok)
                 /\ log[i + 1].segs = log[i].segs
            ELSE pc # "done"

\* C2: the Key tokens of one Node are emitted in ascending byte-wise order of
\* the keys: of two Key tokens with the same path, the earlier has the smaller key.
C2_KeysAscending ==
    \A i \in 1..Len(log) : \A j \in (i + 1)..Len(log) :
        (log[i].tok = "TokenKey" /\ log[j].tok = "TokenKey" /\ log[i].segs = log[j].segs)
            => /\ StrLess(log[i].val.k, log[j].val.k)
               /\ ~StrLess(log[j].val.k, log[i].val.k)

\* C2 witness: both keys of the map {"ab": ..., "B": ...} were emitted, "B" (byte
\* 66) before "ab" (byte 97).
C2_Witness ==
    \E i \in 1..Len(log) : \E j \in (i + 1)..Len(log) :
        /\ log[i].tok = "TokenKey" /\ log[j].tok = "TokenKey"
        /\ log[i].segs = log[j].segs
        /\ log[i].val.k = "B" /\ log[j].val.k = "ab"

\* C3: once the callback has returned Abort it is never invoked again: an
\* invocation that returned Abort is the last one.
C3_AbortIsLast ==
    \A i \in 1..Len(log) : log[i].ret = NodeReadAbort => i = Len(log)

\* C3 witness: Abort was returned on a token two levels down and Read has
\* returned.
C3_Witness ==
    /\ pc = "done" /\ log # <<>>
    /\ log[Len(log)].ret = NodeReadAbort
    /\ Len(log[Len(log)].segs) >= 2

\* C4: Read never returns Abort or SkipSubtree to its caller, and when the last
\* callback invocation returned Abort or SkipSubtree Read reports success.
C4_ControlOutcomesAreSuccess ==
    /\ result \notin {NodeReadAbort, NodeReadSkip}
    /\ (pc = "done" /\ log # <<>> /\ log[Len(log)].ret \in {NodeReadAbort, NodeReadSkip})
          => result = NoErr

\* C4 witness: the very first callback invocation returned SkipSubtree and Read
\* has returned.
C4_Witness ==
    pc = "done" /\ Len(log) = 1 /\ log[1].ret = NodeReadSkip

\* C5: after SkipSubtree on a Key or Index token no token of the associated value
\* is emitted, the next token is the next key (in sorted order) or next index of
\* the same container, or its EndMap or EndArray after the last entry, and the
\* traversal does not end before that token is emitted.
C5_SkipOnEntryContinues ==
    \A i \in 1..Len(log) :
        SkippedEntry(i) =>
            LET c == ValueAt(doc, log[i].segs)
                sub == Append(log[i].segs, log[i].val)
            IN /\ \A j \in (i + 1)..Len(log) : ~IsPrefix(sub, log[j].segs)
               /\ IF i = Len(log)
                  THEN pc = "running" /\ ret = NoRet
                  ELSE /\ log[i + 1].segs = log[i].segs
                       /\ IF log[i].tok = "TokenKey"
                          THEN LET ks == SortStrings(DOMAIN c.m)
                                   n == IndexOf(ks, log[i].val.k)
                               IN IF n < Len(ks)
                                  THEN /\ log[i + 1].tok = "TokenKey"
                                       /\ log[i + 1].val = KeySeg(ks[n + 1])
                                  ELSE log[i + 1].tok = "TokenEndNode"
                          ELSE IF log[i].val.i + 1 < Len(c.a)
                               THEN /\ log[i + 1].tok = "TokenIndex"
                                    /\ log[i + 1].val = IdxSeg(log[i].val.i + 1)
                               ELSE log[i + 1].tok = "TokenEndArray"

\* C5 witness: the last index of a nested slice was skipped and the slice's
\* EndArray followed.
C5_Witness ==
    \E i \in 1..Len(log) :
        /\ SkippedEntry(i) /\ log[i].tok = "TokenIndex" /\ log[i].val.i = 1
        /\ log[i].segs # <<>>
        /\ i < Len(log) /\ log[i + 1].tok = "TokenEndArray"

\* C6: a consumer error returned by the callback ends the traversal with no
\* further invocation, and Read returns exactly that value.
C6_ConsumerErrorPropagates ==
    \A i \in 1..Len(log) :
        log[i].ret \in ConsumerErrs =>
            /\ i = Len(log)
            /\ pc = "done" => result = log[i].ret

\* C6 witness: the callback returned the error E2 two levels down and Read
\* returned E2.
C6_Witness ==
    /\ pc = "done" /\ result = "E2"
    /\ Len(log[Len(log)].segs) >= 2

\* C10 as claimed: a path value passed to the callback keeps its segments
\* whatever is traversed afterwards.
C10_PassedPathsKeepTheirSegments ==
    \A i \in 1..Len(log) : Deref(heap, log[i].path) = log[i].segs

---------------------------------------------------------------------------
(* Properties of IsLink and Links.                                         *)

\* what the claims call a link: a Node with exactly one entry, whose key is the
\* marker and whose value is a string
LinkShaped(v) ==
    /\ v.t = "Node"
    /\ DOMAIN v.m = {"/"}
    /\ v.m["/"].t = "string"

LinksDone == lpc = "done" /\ out.op = "Links"

\* Whichever Nodes Walk visits, every entry of the mapping Links returns is a
\* copy of a Node of the document that IsLink holds of, under that Node's path.
LinksEntriesAreLinks ==
    LinksDone =>
        \A p \in DOMAIN out.m :
            \E at \in NodesIn(probe, <<>>) :
                /\ LinkShaped(at.curr) /\ p = JoinSegs(at.segs)
                /\ out.m[p] = LinkV(at.curr.m)

\* C7: IsLink(v) is true if and only if v is a Node with exactly one entry whose
\* key is the marker "/" and whose value is a string; a Node with more than one
\* key, a Node whose sole "/" value is not a string, and a non-Node are not links.
C7_IsLinkIffSingleMarkerString ==
    (lpc = "done" /\ out.op = "IsLink") =>
        /\ out.ok <=> LinkShaped(probe)
        /\ (probe.t = "Node" /\ Cardinality(DOMAIN probe.m) > 1) => ~out.ok
        /\ (probe.t = "Node" /\ DOMAIN probe.m = {"/"} /\ probe.m["/"].t # "string") => ~out.ok
        /\ probe.t # "Node" => ~out.ok

\* C7 witness: IsLink answered false for a Node holding a string under "/" and a
\* second key.
C7_Witness ==
    /\ lpc = "done" /\ out.op = "IsLink" /\ ~out.ok
    /\ probe.t = "Node" /\ Cardinality(DOMAIN probe.m) = 2
    /\ Lookup(probe.m, "/").t = "string"

LinkCastDone == lpc \in {"done", "changed"} /\ out.op = "LinkCast"

\* C12: LinkCast(v) returns ok = true exactly when IsLink(v), and then the link
\* is a new map holding the single marker entry of v, so that a later change to
\* the returned link leaves v unchanged; otherwise it returns ok = false and no
\* link.
C12_LinkCastCopies ==
    LinkCastDone =>
        /\ out.ok <=> LinkShaped(probe)
        /\ out.ok =>
              /\ out.l # 1 /\ out.l \in 1..Len(store)
              /\ store[1] = probe.m
              /\ lpc = "done" => store[out.l] = One("/", probe.m["/"])
        /\ ~out.ok => out.l = NilRef

\* C12 witness: the returned link was given a second entry and v still has one.
C12_Witness ==
    /\ LinkCastDone /\ lpc = "changed"
    /\ DOMAIN store[out.l] = {"/", "a"}
    /\ DOMAIN store[1] = {"/"}
EqualDone == lpc = "done" /\ out.op = "Equal"

\* two Links with the same key set and equal values under every key
SameEntries(x, y) == DOMAIN x.m = DOMAIN y.m /\ \A k \in DOMAIN x.m : x.m[k] = y.m[k]

\* two Links whose only key is the marker, holding different strings
DifferentPayloads(x, y) ==
    /\ DOMAIN x.m = {"/"} /\ DOMAIN y.m = {"/"}
    /\ x.m["/"].t = "string" /\ y.m["/"].t = "string"
    /\ x.m["/"].s # y.m["/"].s

\* C13 as claimed: Equal is reflexive and symmetric, true iff both links have the
\* same key set and equal values under every key, and false for links with
\* identical key sets but different strings under the marker key.
C13_EqualIffSameEntries ==
    EqualDone =>
        /\ out.self
        /\ out.eq = out.rev
        /\ out.eq <=> SameEntries(probe, out.l2)
        /\ DifferentPayloads(probe, out.l2) => ~out.eq

\* C13 as amended: Equal is reflexive and symmetric, true iff the two links are
\* both nil or both non-nil and have the same key set and equal values under
\* every key, and false for links with identical key sets but different strings
\* under the marker key.
C13_EqualIffSameEntriesAndNilness ==
    EqualDone =>
        /\ out.self
        /\ out.eq = out.rev
        /\ out.eq <=> (SameEntries(probe, out.l2) /\ IsNilLink(probe) = IsNilLink(out.l2))
        /\ DifferentPayloads(probe, out.l2) => ~out.eq

\* C13 witness: two links holding different strings under the marker key were
\* compared and found unequal.
C13_Witness == EqualDone /\ DifferentPayloads(probe, out.l2) /\ ~out.eq
HashDone == lpc = "done" /\ out.op = "Hash"

\* C14: LinkStr returns the string stored under the marker key, and the empty
\* string when the key is absent or holds no string; Hash returns an error
\* without decoding whenever that string is empty, and otherwise exactly what
\* decoding the string as a content-identifier gives.
C14_LinkStrAndHash ==
    HashDone =>
        /\ out.s = IF "/" \in DOMAIN probe.m /\ probe.m["/"].t = "string"
                   THEN probe.m["/"].s ELSE ""
        /\ out.s = "" => (out.hash.err # NoErr /\ out.hash.decoded = <<>> /\ out.hash.h = Nil)
        /\ out.s # "" =>
              /\ out.hash.decoded = <<out.s>>
              /\ out.hash.h = FromB58String(out.s).h
              /\ out.hash.err = FromB58String(out.s).err

\* C14 witness: the marker key holds a number, LinkStr gave the empty string and
\* Hash failed without decoding.
C14_Witness ==
    /\ HashDone /\ "/" \in DOMAIN probe.m /\ probe.m["/"].t = "number"
    /\ out.s = "" /\ out.hash.err = "no hash in link"
GetDone == lpc = "done" /\ out.op = "Get"

\* one step of a resolution, as the claim words it
Child(v, seg) ==
    IF v.t = "Node" /\ ToStr(seg) \in DOMAIN v.m THEN v.m[ToStr(seg)]
    ELSE IF v.t = "slice" /\ IsIndex(seg) /\ ParseIndex(seg) < Len(v.a)
    THEN v.a[ParseIndex(seg) + 1]
    ELSE Nil

\* the value after each segment in turn, starting from v
StepByStep(v, segs) ==
    LET f[i \in 0..Len(segs)] == IF i = 0 THEN v ELSE Child(f[i - 1], segs[i])
    IN f[Len(segs)]

ExampleDoc == NodeV(One("a", NodeV(One("b", Str("x")))))

\* C15: Get resolves the path segment by segment from the node: an existing key
\* yields its value; a missing key, a non-numeric or out-of-range index into a
\* sequence, or segments left over at a scalar yield no value;
\* Get({"a": {"b": "x"}}, "a/b") = "x" and Get({"a": {"b": "x"}}, "a/c") = no value.
C15_GetResolvesBySegment ==
    GetDone =>
        /\ out.val = StepByStep(probe, SplitPath(out.path))
        /\ (probe = ExampleDoc /\ out.path = <<"a", "/", "b">>) => out.val = Str("x")
        /\ (probe = ExampleDoc /\ out.path = <<"a", "/", "c">>) => out.val = Nil
        /\ (Len(out.path) = 1 /\ out.path[1] \notin DOMAIN probe.m) => out.val = Nil
        /\ (Len(out.path) = 1 /\ out.path[1] \in DOMAIN probe.m) => out.val = probe.m[out.path[1]]

\* C15 witness: Get({"a": {"b": "x"}}, "a/c") found no value.
C15_Witness ==
    GetDone /\ probe = ExampleDoc /\ out.path = <<"a", "/", "c">> /\ out.val = Nil
---------------------------------------------------------------------------
(* The shape of a whole traversal.                                         *)

Token(tok, segs, val) == [tok |-> tok, segs |-> segs, val |-> val]

\* what the i-th callback invocation was given
Emitted(i) == Token(log[i].tok, log[i].segs, log[i].val)

AllContinue == \A i \in 1..Len(log) : log[i].ret = NoErr

\* the tokens of the value v found at segs: a container is its Start token, for
\* each entry the Key or Index token and then the tokens of the entry's value,
\* and its End token; any other value is one Value token
RECURSIVE Tokens(_, _)
Tokens(v, segs) ==
    IF v.t = "Node"
    THEN LET ks == SortStrings(DOMAIN v.m)
             ent[n \in 0..Len(ks)] ==
                 IF n = 0 THEN <<>>
                 ELSE ent[n - 1] \o <<Token("TokenKey", segs, KeySeg(ks[n]))>>
                        \o Tokens(v.m[ks[n]], Append(segs, KeySeg(ks[n])))
         IN <<Token("TokenNode", segs, Nil)>> \o ent[Len(ks)]
              \o <<Token("TokenEndNode", segs, Nil)>>
    ELSE IF v.t = "slice"
    THEN LET ent[n \in 0..Len(v.a)] ==
                 IF n = 0 THEN <<>>
                 ELSE ent[n - 1] \o <<Token("TokenIndex", segs, [i |-> n - 1])>>
                        \o Tokens(v.a[n], Append(segs, [i |-> n - 1]))
         IN <<Token("TokenArray", segs, Nil)>> \o ent[Len(v.a)]
              \o <<Token("TokenEndArray", segs, Nil)>>
    ELSE <<Token("TokenValue", segs, v)>>

\* C16: when the callback returns Continue for every token, the tokens emitted so
\* far are the first tokens of the document's well-nested token sequence (Start,
\* then per entry Key or Index and the value's tokens, then End; one Value per
\* scalar), Read does not return before the whole sequence is emitted, every
\* Start token then has its matching End token, and Read returns success.
C16_AllContinueCoversDocument ==
    AllContinue =>
        LET all == Tokens(doc, <<>>) IN
        /\ Len(log) <= Len(all)
        /\ \A i \in 1..Len(log) : Emitted(i) = all[i]
        /\ pc = "done" =>
              /\ Len(log) = Len(all)
              /\ result = NoErr
              /\ \A i \in 1..Len(log) :
                    log[i].tok \in StartToks =>
                        \E j \in (i + 1)..Len(log) :
                            /\ log[j].tok = MatchingEnd(log[i].tok)
                            /\ log[j].segs = log[i].segs

\* C16 witness: Read returned from a document holding a map and a slice side by
\* side after the callback returned Continue for each of its ten tokens.
C16_Witness ==
    /\ pc = "done" /\ AllContinue /\ Len(log) = 10
    /\ \E i \in 1..Len(log) : log[i].tok = "TokenArray"
    /\ \E i \in 1..Len(log) : log[i].tok = "TokenNode" /\ Len(log[i].segs) = 1
NoSuchElement == [t |-> "none"]

\* the element of the document v that the keys and indices segs lead to, if any
RECURSIVE ElementAt(_, _)
ElementAt(v, segs) ==
    IF segs = <<>> THEN v
    ELSE IF v.t = "Node" /\ DOMAIN Head(segs) = {"k"} /\ Head(segs).k \in DOMAIN v.m
    THEN ElementAt(v.m[Head(segs).k], Tail(segs))
    ELSE IF v.t = "slice" /\ DOMAIN Head(segs) = {"i"} /\ Head(segs).i \in 0..(Len(v.a) - 1)
    THEN ElementAt(v.a[Head(segs).i + 1], Tail(segs))
    ELSE NoSuchElement

NodeToks == {"TokenNode", "TokenKey", "TokenEndNode"}
ArrayToks == {"TokenArray", "TokenIndex", "TokenEndArray"}

\* C17: every token carries the keys and indices leading from the root to the
\* element it belongs to: the Start, Key/Index and End tokens of a container
\* carry the container's own path (empty for the root), a Value token carries the
\* path of its scalar, and the token that follows a Key or Index token answered
\* with Continue is the Start or Value token of the announced value, carrying the
\* container's path extended by that key or index, one segment longer.
C17_TokensCarryTheirPath ==
    \A i \in 1..Len(log) :
        LET e == ElementAt(doc, log[i].segs) IN
        /\ i = 1 => log[i].segs = <<>>
        /\ log[i].tok \in NodeToks => e.t = "Node"
        /\ log[i].tok \in ArrayToks => e.t = "slice"
        /\ log[i].tok = "TokenValue" => (e = log[i].val /\ e.t \notin {"Node", "slice", "none"})
        /\ log[i].tok \in EntryToks =>
              ElementAt(doc, Append(log[i].segs, log[i].val)) # NoSuchElement
        /\ (log[i].tok \in EntryToks /\ log[i].ret = NoErr /\ i < Len(log)) =>
              /\ log[i + 1].tok \in StartToks \cup {"TokenValue"}
              /\ log[i + 1].segs = Append(log[i].segs, log[i].val)
              /\ Len(log[i + 1].segs) = Len(log[i].segs) + 1

\* C17 witness: the Value token of the second element of a slice three maps down
\* carried the three keys and the index 1.
C17_Witness ==
    \E i \in 1..Len(log) :
        /\ log[i].tok = "TokenValue" /\ log[i].val = Str("x")
        /\ log[i].segs = <<[k |-> "a"], [k |-> "a"], [k |-> "a"], [i |-> 1]>>
\* the i-th invocation was given the Index token n of the slice at segs
IsIndexTok(i, segs, n) ==
    log[i].tok = "TokenIndex" /\ log[i].segs = segs /\ log[i].val = [i |-> n]

\* C18: the Index tokens of a slice carry 0, 1, ..., len-1 in ascending order
\* (each is below the length, the first emitted is 0, each later one follows its
\* predecessor, and all have been emitted when EndArray is), and every token of
\* element n comes after Index(n) and before Index(n+1), a Value token among
\* them carrying the element stored at position n.
C18_IndexTokensInStoredOrder ==
    \A i \in 1..Len(log) :
        LET segs == log[i].segs
            e == ElementAt(doc, segs)
        IN
        /\ log[i].tok = "TokenIndex" =>
              /\ e.t = "slice"
              /\ DOMAIN log[i].val = {"i"}
              /\ log[i].val.i \in 0..(Len(e.a) - 1)
              /\ \A j \in 1..(i - 1) :
                    (log[j].tok = "TokenIndex" /\ log[j].segs = segs)
                       => log[j].val.i < log[i].val.i
              /\ \A n \in 0..(log[i].val.i - 1) :
                    \E j \in 1..(i - 1) : IsIndexTok(j, segs, n)
        /\ (log[i].tok = "TokenEndArray" /\ e.t = "slice") =>
              \A n \in 0..(Len(e.a) - 1) : \E j \in 1..(i - 1) : IsIndexTok(j, segs, n)
        /\ (segs # <<>> /\ DOMAIN segs[Len(segs)] = {"i"}) =>
              LET n == segs[Len(segs)].i IN
              /\ \E j \in 1..(i - 1) : IsIndexTok(j, Front(segs), n)
              /\ \A j \in 1..(i - 1) : ~IsIndexTok(j, Front(segs), n + 1)
              /\ log[i].tok = "TokenValue" =>
                    LET c == ElementAt(doc, Front(segs))
                    IN c.t = "slice" /\ n < Len(c.a) /\ log[i].val = c.a[n + 1]

\* C18 witness: a slice of two elements under a key was read to its EndArray:
\* Index 0, the first element, Index 1, the second element, EndArray.
C18_Witness ==
    \E i \in 1..Len(log) :
        LET segs == log[i].segs IN
        /\ segs # <<>>
        /\ log[i].tok = "TokenArray" /\ i + 5 <= Len(log)
        /\ IsIndexTok(i + 1, segs, 0)
        /\ log[i + 2].tok = "TokenValue" /\ log[i + 2].val = Num(1)
        /\ IsIndexTok(i + 3, segs, 1)
        /\ log[i + 4].tok = "TokenValue" /\ log[i + 4].val = Str("x")
        /\ log[i + 5].tok = "TokenEndArray"
\* the token a container at path pp emits once it is done with its entry seg:
\* its next Key or Index token, or its End token after the last entry
AfterEntry(pp, seg) ==
    LET c == ElementAt(doc, pp) IN
    IF c.t = "Node"
    THEN LET ks == SortStrings(DOMAIN c.m)
             n == IndexOf(ks, seg.k)
         IN IF n < Len(ks) THEN Token("TokenKey", pp, [k |-> ks[n + 1]])
            ELSE Token("TokenEndNode", pp, Nil)
    ELSE IF seg.i + 1 < Len(c.a) THEN Token("TokenIndex", pp, [i |-> seg.i + 1])
         ELSE Token("TokenEndArray", pp, Nil)

\* the callback answered every token so far with Continue or SkipSubtree
OnlyContinueOrSkip == \A i \in 1..Len(log) : log[i].ret \in {NoErr, NodeReadSkip}

\* C19: SkipSubtree answered to a token inside a child value ends at most that
\* child: after a skipped Key or Index token the nested container goes on; after
\* a skipped Value, Start or End token of the child the enclosing container emits
\* its next Key or Index token, or its own End token after the last entry, and
\* Read does not return before; and when Read has returned from a run answered
\* with Continue and SkipSubtree only, every container entered with Continue has
\* emitted a Key or Index token for each of its entries and its End token.
C19_SkipEndsOnlyTheChild ==
    /\ \A i \in 1..Len(log) :
          (log[i].ret = NodeReadSkip /\ log[i].segs # <<>>) =>
              IF i = Len(log) THEN pc = "running"
              ELSE IF log[i].tok \in EntryToks THEN log[i + 1].segs = log[i].segs
              ELSE Emitted(i + 1) =
                      AfterEntry(Front(log[i].segs), log[i].segs[Len(log[i].segs)])
    /\ (pc = "done" /\ OnlyContinueOrSkip) =>
          \A i \in 1..Len(log) :
              (log[i].tok \in StartToks /\ log[i].ret = NoErr) =>
                  LET c == ElementAt(doc, log[i].segs) IN
                  /\ \E j \in (i + 1)..Len(log) :
                        /\ log[j].tok = MatchingEnd(log[i].tok)
                        /\ log[j].segs = log[i].segs
                  /\ c.t = "Node" =>
                        \A k \in DOMAIN c.m : \E j \in (i + 1)..Len(log) :
                            Emitted(j) = Token("TokenKey", log[i].segs, [k |-> k])
                  /\ c.t = "slice" =>
                        \A n \in 0..(Len(c.a) - 1) : \E j \in (i + 1)..Len(log) :
                            IsIndexTok(j, log[i].segs, n)

\* C19 witness: SkipSubtree was answered to a Start, End or Value token of the
\* value under "a" at least two levels down, the Key token "b" of the enclosing
\* map followed, and Read has returned.
C19_Witness ==
    /\ pc = "done"
    /\ \E i \in 1..(Len(log) - 1) :
          /\ log[i].ret = NodeReadSkip
          /\ log[i].tok \in StartToks \cup EndToks \cup {"TokenValue"}
          /\ Len(log[i].segs) >= 2
          /\ log[i].segs[Len(log[i].segs)] = [k |-> "a"]
          /\ Emitted(i + 1) = Token("TokenKey", Front(log[i].segs), [k |-> "b"])
\* no two callback invocations were given the same token
TokensAtMostOnce ==
    \A i \in 1..Len(log) : \A j \in (i + 1)..Len(log) : Emitted(i) # Emitted(j)

\* every token given to the callback is one of the document's tokens
TokensOfDocument ==
    LET all == Tokens(doc, <<>>) IN
    /\ Len(log) <= Len(all)
    /\ \A i \in 1..Len(log) : \E n \in 1..Len(all) : Emitted(i) = all[n]

\* Read has returned: completed, aborted, or failed with the consumer's error
Terminal ==
    /\ log # <<>>
    /\ \/ OnlyContinueOrSkip /\ result = NoErr
       \/ log[Len(log)].ret = NodeReadAbort /\ result = NoErr
       \/ log[Len(log)].ret \in ConsumerErrs /\ result = log[Len(log)].ret

\* C20: whatever the callback answers, Read returns after finitely many
\* invocations: each token of the document is given to the callback at most
\* once, so there are no more invocations than the document has tokens, and Read
\* eventually returns, completed, aborted or failed with the consumer's error.
C20_ReadTerminates ==
    /\ [](TokensAtMostOnce /\ TokensOfDocument)
    /\ [](pc = "done" => Terminal)
    /\ <>(pc = "done")

\* C20 witness: Read returned the consumer's error E1 after a run in which the
\* callback had also answered Continue and SkipSubtree.
C20_Witness ==
    /\ pc = "done" /\ result = "E1"
    /\ Len(log) >= 6
    /\ \E i \in 1..Len(log) : log[i].ret = NodeReadSkip
====
